---------------------------- MODULE Spec2Model ----------------------------
(***************************************************************************)
(* Keyframe segmentation and playback cursor of the GIF animation sampler  *)
(* (src/v0.62.36_strippedBuild_GIF_v039.py, class GifSamplerTestVersion).  *)
(*                                                                         *)
(* The state is the part of the widget the segmentation and the playback   *)
(* handlers read and write: the keyframe map, the number of loaded frames, *)
(* the selected frame, the play and loop buttons, the single-shot timer,   *)
(* the playback cursor, the cached loop range and the sub-loop counters.   *)
(* One action stands for one Qt signal handler, run to completion (the     *)
(* application is single-threaded and event driven).                       *)
(***************************************************************************)
EXTENDS Integers, Sequences, FiniteSets, TLC

VARIABLES
    frameCount,                    \* len(self.all_frame_data)
    keyframes,                     \* self.keyframes: frame index -> record
    selected_index,                \* self.selected_index (NoneIdx for None)
    play_checked,                  \* self.play_pause_btn.isChecked()
    loop_checked,                  \* self.loop_btn.isChecked()
    timer_active,                  \* self.playback_timer.isActive()
    current_playback_frame_index,  \* self.current_playback_frame_index
    is_in_complete_motion_loop,    \* self.is_in_complete_motion_loop
    loop_return_point,             \* self.loop_return_point
    loop_end_point,                \* self.loop_end_point
    sub_loop_counters,             \* self.sub_loop_counters: start -> count
    last_op,                       \* the last request, where properties tell them apart
    shown,                         \* frames displayed by playback since it started
    project_file                   \* the .gifproj file next to the GIF, on disk

vars == <<frameCount, keyframes, selected_index, play_checked, loop_checked,
          timer_active, current_playback_frame_index,
          is_in_complete_motion_loop, loop_return_point, loop_end_point,
          sub_loop_counters, last_op, shown, project_file>>

(***************************************************************************)
(* Bounds of the model.                                                    *)
(***************************************************************************)
FrameCount == 3        \* frames of the GIF loaded in Spec
MaxKeys == 2           \* keyframes of the project loaded in Spec, at most
EditFrames == 3        \* frames of the GIF loaded in SpecEdit
EditMaxKeys == 1       \* keyframes the map holds at most in SpecEdit
LiveFrames == 2        \* frames of the GIF loaded in SpecLive
DialogFrames == 2      \* frames of the GIF loaded in SpecDialog
FileFrames == 11       \* frames of the GIF loaded in SpecFile
MaxEntries == 2        \* keyframe entries a project file holds at most
ProgressFrames == 3    \* frames of the GIF loaded in SpecProgress
ProgressMaxKeys == 2   \* keyframes of the project loaded in SpecProgress, at most
PlayerFrames == 3      \* frames of the GIF loaded in SpecPlayer
PlayerMaxKeys == 2     \* keyframes of the project loaded in SpecPlayer, at most
MaxShown == 30         \* displayed frames recorded in SpecExample

LoopChoices == {0, 2}  \* loop counts offered by the keyframe dialog
Names == {"", "m"}     \* texts of the dialog's name field

(***************************************************************************)
(* Program constants.                                                      *)
(***************************************************************************)
TypeStart == 1
TypeMiddle == 2
TypeEnd == 9
NoneIdx == -1          \* None, and the -1 the code uses for "no frame"

KeyTypes == {TypeStart, TypeMiddle, TypeEnd}

EmptyMap == [k \in {} |-> 0]

Put(f, k, v) == [x \in (DOMAIN f) \cup {k} |-> IF x = k THEN v ELSE f[x]]
Drop(f, k) == [x \in (DOMAIN f) \ {k} |-> f[x]]

SetMin(S) == CHOOSE x \in S : \A y \in S : x <= y
SetMax(S) == CHOOSE x \in S : \A y \in S : x >= y

RECURSIVE SortedSeq(_)
SortedSeq(S) ==
    IF S = {} THEN <<>> ELSE <<SetMin(S)>> \o SortedSeq(S \ {SetMin(S)})

\* sorted(self.keyframes.keys())
SortedKeys(kf) == SortedSeq(DOMAIN kf)

\* os.path.exists(self.project_path) is false
NoFile == [exists |-> FALSE, valid |-> FALSE, entries |-> <<>>]

\* the {} that default_context carries as "data": every .get() on it misses
NoData == [name |-> "", type |-> 0, loop |-> 0, locked |-> FALSE]

default_context ==
    [start |-> NoneIdx, end |-> NoneIdx, data |-> NoData, type |-> "none",
     sub_motions |-> <<>>]

(***************************************************************************)
(* _is_sub_motion(key_index, sorted_keys)                                  *)
(***************************************************************************)
\* faulty variant: a Middle keyframe continues whatever keyframe precedes it
IsSubMotion_AnyPrevious(kf, key_index) ==
    /\ key_index \in DOMAIN kf
    /\ kf[key_index].type = TypeMiddle
    /\ \E k \in DOMAIN kf : k < key_index

IsSubMotion(kf, key_index) ==
    IF key_index \notin DOMAIN kf \/ kf[key_index].type # TypeMiddle THEN FALSE
    ELSE LET before == {k \in DOMAIN kf : k < key_index} IN
         IF before = {} THEN FALSE
         ELSE LET prev_key_index == SetMax(before) IN
              IF kf[prev_key_index].type \in {TypeStart, TypeMiddle}
              THEN ~ \E k \in DOMAIN kf :
                        /\ prev_key_index < k
                        /\ k < key_index
                        /\ kf[k].type = TypeEnd
              ELSE FALSE

\* the condition of true_start_keys and of is_next_start
IsTrueStart(kf, k) ==
    \/ kf[k].type = TypeStart
    \/ (kf[k].locked /\ kf[k].type # TypeEnd)
    \/ (kf[k].type = TypeMiddle /\ ~IsSubMotion(kf, k))

\* faulty variant: a segment that nothing closes ends after the last frame
RECURSIVE ScanEnd_PastLastFrame(_, _, _, _, _)
ScanEnd_PastLastFrame(kf, n, sk, p, start_key) ==
    IF p > Len(sk) THEN [end |-> n, type |-> "simple"]
    ELSE IF sk[p] > start_key /\ IsTrueStart(kf, sk[p])
         THEN [end |-> sk[p] - 1, type |-> "simple"]
    ELSE IF sk[p] > start_key /\ kf[sk[p]].type = TypeEnd
         THEN [end |-> sk[p], type |-> "complete"]
    ELSE ScanEnd_PastLastFrame(kf, n, sk, p + 1, start_key)

\* faulty variant: the scan stops at End keyframes only
RECURSIVE ScanEnd_IgnoresNextStart(_, _, _, _, _)
ScanEnd_IgnoresNextStart(kf, n, sk, p, start_key) ==
    IF p > Len(sk) THEN [end |-> n - 1, type |-> "simple"]
    ELSE IF sk[p] > start_key /\ kf[sk[p]].type = TypeEnd
         THEN [end |-> sk[p], type |-> "complete"]
    ELSE ScanEnd_IgnoresNextStart(kf, n, sk, p + 1, start_key)

\* the scan "for key in sorted_keys: if key > start_key: ..." from position p
RECURSIVE ScanEnd(_, _, _, _, _)
ScanEnd(kf, n, sk, p, start_key) ==
    IF p > Len(sk) THEN [end |-> n - 1, type |-> "simple"]
    ELSE IF sk[p] > start_key /\ IsTrueStart(kf, sk[p])
         THEN [end |-> sk[p] - 1, type |-> "simple"]
    ELSE IF sk[p] > start_key /\ kf[sk[p]].type = TypeEnd
         THEN [end |-> sk[p], type |-> "complete"]
    ELSE ScanEnd(kf, n, sk, p + 1, start_key)

\* faulty variant: a sub-motion runs up to the next sub-motion's start, not before it
SubMotions_Overlap(kf, smk, end_key) ==
    [i \in 1..Len(smk) |->
        [start |-> smk[i],
         end |-> IF i + 1 <= Len(smk) THEN smk[i + 1] ELSE end_key,
         data |-> kf[smk[i]]]]

\* the list sub_motions built from sub_motion_keys
\* faulty variant: the last sub-motion runs one frame past the segment end
SubMotions_PastEnd(kf, smk, end_key) ==
    [i \in 1..Len(smk) |->
        [start |-> smk[i],
         end |-> IF i + 1 <= Len(smk) THEN smk[i + 1] - 1 ELSE end_key + 1,
         data |-> kf[smk[i]]]]

SubMotions(kf, smk, end_key) ==
    [i \in 1..Len(smk) |->
        [start |-> smk[i],
         end |-> IF i + 1 <= Len(smk) THEN smk[i + 1] - 1 ELSE end_key,
         data |-> kf[smk[i]]]]

(***************************************************************************)
(* _get_keyframe_context_for_frame(frame_index), frame_index an integer    *)
(***************************************************************************)
\* faulty variant: no segment before a leading End keyframe
ContextForFrame_NoPreSegment(kf, n, frame_index) ==
    LET sorted_keys == SortedKeys(kf)
        true_start_keys == {k \in DOMAIN kf : IsTrueStart(kf, k)}
    IN
    IF {k \in true_start_keys : k <= frame_index} = {} THEN default_context
    ELSE
    LET start_key == SetMax({k \in true_start_keys : k <= frame_index})
        scan == ScanEnd(kf, n, sorted_keys, 1, start_key)
        sub_motion_keys ==
            SortedSeq({k \in DOMAIN kf :
                          /\ start_key <= k /\ k <= scan.end
                          /\ kf[k].type # TypeEnd})
    IN
    IF frame_index <= scan.end
    THEN [start |-> start_key, end |-> scan.end, data |-> kf[start_key],
          type |-> scan.type,
          sub_motions |-> SubMotions(kf, sub_motion_keys, scan.end)]
    ELSE default_context

ContextForFrame(kf, n, frame_index) ==
    IF DOMAIN kf = {} \/ n = 0 THEN default_context
    ELSE
    LET sorted_keys == SortedKeys(kf)
        first_key == sorted_keys[1]
        first_key_data == kf[first_key]
        is_simple_end ==
            ~ \E k \in DOMAIN kf :
                k < first_key /\ kf[k].type \in {TypeStart, TypeMiddle}
        is_locked_start_before ==
            \E k \in DOMAIN kf :
                k < first_key /\ kf[k].locked /\ kf[k].type # TypeEnd
        true_start_keys == {k \in DOMAIN kf : IsTrueStart(kf, k)}
    IN
    IF /\ first_key_data.type = TypeEnd
       /\ is_simple_end /\ ~is_locked_start_before
       /\ frame_index <= first_key
    THEN [start |-> 0, end |-> first_key, data |-> first_key_data,
          type |-> "simple_end",
          sub_motions |->
              <<[start |-> 0, end |-> first_key, data |-> first_key_data]>>]
    ELSE IF true_start_keys = {} THEN default_context
    ELSE IF {k \in true_start_keys : k <= frame_index} = {} THEN default_context
    ELSE
    LET start_key == SetMax({k \in true_start_keys : k <= frame_index})
        scan == ScanEnd(kf, n, sorted_keys, 1, start_key)
        end_key == scan.end
        sub_motion_keys ==
            SortedSeq({k \in DOMAIN kf :
                          /\ start_key <= k /\ k <= end_key
                          /\ kf[k].type # TypeEnd})
    IN
    IF start_key <= frame_index /\ frame_index <= end_key
    THEN [start |-> start_key, end |-> end_key, data |-> kf[start_key],
          type |-> scan.type,
          sub_motions |-> SubMotions(kf, sub_motion_keys, end_key)]
    ELSE default_context

\* faulty variant: only the keyframe of the frame itself is asked for its lock
IsLockedIn_OwnKeyOnly(kf, n, i) == i \in DOMAIN kf /\ kf[i].locked

\* context["type"] != "none" and context["data"].get("locked", False)
IsLockedIn(kf, n, i) ==
    LET context == ContextForFrame(kf, n, i) IN
    context.type # "none" /\ context.data.locked

(***************************************************************************)
(* _find_next_unlocked_frame(start_index): the frame found (NoneIdx for    *)
(* -1) and the number of candidates whose context was examined.            *)
(***************************************************************************)
\* faulty variant: the scan ends at the last frame instead of wrapping to frame 0
RECURSIVE FindLoop_NoWrap(_, _, _, _)
FindLoop_NoWrap(kf, n, idx, checked_count) ==
    IF ~(checked_count < n) \/ idx >= n
    THEN [frame |-> NoneIdx, examined |-> checked_count]
    ELSE IF ~IsLockedIn(kf, n, idx)
         THEN [frame |-> idx, examined |-> checked_count + 1]
         ELSE FindLoop_NoWrap(kf, n, idx + 1, checked_count + 1)

RECURSIVE FindLoop(_, _, _, _)
FindLoop(kf, n, idx, checked_count) ==
    IF ~(checked_count < n)
    THEN [frame |-> NoneIdx, examined |-> checked_count]
    ELSE LET i == IF idx >= n THEN 0 ELSE idx IN
         IF ~IsLockedIn(kf, n, i)
         THEN [frame |-> i, examined |-> checked_count + 1]
         ELSE FindLoop(kf, n, i + 1, checked_count + 1)

FindNextUnlocked(kf, n, start_index) ==
    IF n = 0 THEN [frame |-> NoneIdx, examined |-> 0]
    ELSE FindLoop(kf, n, start_index, 0)

\* faulty variant: the computed frame is shown without skipping locked frames
FindNextUnlockedFrame_NoSkip(kf, n, start_index) ==
    IF n = 0 THEN NoneIdx ELSE IF start_index >= n THEN 0 ELSE start_index

FindNextUnlockedFrame(kf, n, start_index) ==
    FindNextUnlocked(kf, n, start_index).frame

(***************************************************************************)
(* Loop state: is_in_complete_motion_loop, loop_return_point,              *)
(* loop_end_point.  _reset_loop_state and _update_playback_context also    *)
(* clear sub_loop_counters; the actions below do that next to them.        *)
(***************************************************************************)
ResetLoopState == [in_loop |-> FALSE, ret |-> NoneIdx, end |-> NoneIdx]

\* _update_playback_context(frame_index)
UpdatePlaybackContext(kf, n, loop_on, frame_index) ==
    LET context == ContextForFrame(kf, n, frame_index)
        is_loopable_motion == context.type \in {"complete", "simple", "simple_end"}
    IN IF loop_on /\ is_loopable_motion
       THEN [in_loop |-> TRUE, ret |-> context.start, end |-> context.end]
       ELSE ResetLoopState

CurrentLoopState ==
    [in_loop |-> is_in_complete_motion_loop, ret |-> loop_return_point,
     end |-> loop_end_point]

SetLoopState(ls) ==
    /\ is_in_complete_motion_loop' = ls.in_loop
    /\ loop_return_point' = ls.ret
    /\ loop_end_point' = ls.end

\* faulty variant: stopping keeps the sub-motion counters
StopPlaybackAndResetUi_KeepsCounters ==
    /\ timer_active' = FALSE
    /\ play_checked' = FALSE
    /\ SetLoopState(ResetLoopState)
    /\ UNCHANGED sub_loop_counters

\* _stop_playback_and_reset_ui()
StopPlaybackAndResetUi ==
    /\ timer_active' = FALSE
    /\ play_checked' = FALSE
    /\ SetLoopState(ResetLoopState)
    /\ sub_loop_counters' = EmptyMap

\* _update_playback_context(f) followed by _resume_playback(f), f in range
StartPlaybackAt(f) ==
    /\ current_playback_frame_index' = f
    /\ SetLoopState(UpdatePlaybackContext(keyframes, frameCount, loop_checked, f))
    /\ sub_loop_counters' = EmptyMap
    /\ play_checked' = TRUE
    /\ selected_index' = f
    /\ timer_active' = TRUE

(***************************************************************************)
(* _advance_frame(): the frame computed before the locked frames are       *)
(* skipped, with the counters and the loop state at that point.            *)
(***************************************************************************)
\* the sub-motion whose end is the current frame, as a set of list positions
SubMotionsEndingAt(context, current_frame) ==
    {i \in 1..Len(context.sub_motions) :
        context.sub_motions[i].end = current_frame}

CounterOf(counters, start) ==
    IF start \in DOMAIN counters THEN counters[start] ELSE 0

\* faulty variant: one repeat too many (<= for <)
HasLoopedInSub_OffByOne(context, current_frame, counters) ==
    /\ context.type # "none"
    /\ SubMotionsEndingAt(context, current_frame) # {}
    /\ LET sub_motion ==
               context.sub_motions[SetMin(SubMotionsEndingAt(context, current_frame))]
       IN CounterOf(counters, sub_motion.start) <= sub_motion.data.loop

\* has_looped_in_sub: the first sub-motion ending here still has repeats left
HasLoopedInSub(context, current_frame, counters) ==
    /\ context.type # "none"
    /\ SubMotionsEndingAt(context, current_frame) # {}
    /\ LET sub_motion ==
               context.sub_motions[SetMin(SubMotionsEndingAt(context, current_frame))]
       IN CounterOf(counters, sub_motion.start) < sub_motion.data.loop

\* faulty variant: the segment loop is never taken
NextFrameInSegment_NoSegmentLoop(context, current_frame, ls, counters) ==
    IF context.type = "none"
    THEN [next |-> current_frame + 1, counters |-> counters]
    ELSE IF HasLoopedInSub(context, current_frame, counters)
    THEN LET sub_motion ==
                 context.sub_motions[SetMin(SubMotionsEndingAt(context, current_frame))]
         IN [next |-> sub_motion.start,
             counters |-> Put(counters, sub_motion.start,
                              CounterOf(counters, sub_motion.start) + 1)]
    ELSE [next |-> current_frame + 1, counters |-> counters]

\* faulty variant: the segment loop is taken before the sub-motion repeats
NextFrameInSegment_SegmentLoopFirst(context, current_frame, ls, counters) ==
    IF context.type = "none"
    THEN [next |-> current_frame + 1, counters |-> counters]
    ELSE IF ls.in_loop /\ current_frame = ls.end
    THEN [next |-> ls.ret, counters |-> EmptyMap]
    ELSE IF HasLoopedInSub(context, current_frame, counters)
    THEN LET sub_motion ==
                 context.sub_motions[SetMin(SubMotionsEndingAt(context, current_frame))]
         IN [next |-> sub_motion.start,
             counters |-> Put(counters, sub_motion.start,
                              CounterOf(counters, sub_motion.start) + 1)]
    ELSE [next |-> current_frame + 1, counters |-> counters]

\* faulty variant: a sub-motion repeat is taken but not counted
NextFrameInSegment_RepeatNotCounted(context, current_frame, ls, counters) ==
    IF context.type = "none"
    THEN [next |-> current_frame + 1, counters |-> counters]
    ELSE IF HasLoopedInSub(context, current_frame, counters)
    THEN LET sub_motion ==
                 context.sub_motions[SetMin(SubMotionsEndingAt(context, current_frame))]
         IN [next |-> sub_motion.start, counters |-> counters]
    ELSE IF ls.in_loop /\ current_frame = ls.end
    THEN [next |-> ls.ret, counters |-> EmptyMap]
    ELSE [next |-> current_frame + 1, counters |-> counters]

\* lines 1113-1135: next_frame_index and sub_loop_counters after the branch
NextFrameInSegment(context, current_frame, ls, counters) ==
    IF context.type = "none"
    THEN [next |-> current_frame + 1, counters |-> counters]
    ELSE IF HasLoopedInSub(context, current_frame, counters)
    THEN LET sub_motion ==
                 context.sub_motions[SetMin(SubMotionsEndingAt(context, current_frame))]
         IN [next |-> sub_motion.start,
             counters |-> Put(counters, sub_motion.start,
                              CounterOf(counters, sub_motion.start) + 1)]
    ELSE IF ls.in_loop /\ current_frame = ls.end
    THEN [next |-> ls.ret, counters |-> EmptyMap]
    ELSE [next |-> current_frame + 1, counters |-> counters]

\* lines 1137-1143: the wrap at the end of the frame list
WrapAtEnd(kf, n, loop_on, ls, step) ==
    IF step.next >= n
    THEN IF ls.in_loop
         THEN [next |-> ls.ret, counters |-> EmptyMap, ls |-> ls]
         ELSE [next |-> 0, counters |-> EmptyMap,
               ls |-> UpdatePlaybackContext(kf, n, loop_on, 0)]
    ELSE [next |-> step.next, counters |-> step.counters, ls |-> ls]

\* faulty variant: entering or leaving a segment is no change of context
ContextChanged_IgnoresNone(context, new_context) ==
    /\ context.type # "none"
    /\ new_context.type # "none"
    /\ context.start # new_context.start

\* lines 1151-1153: the playback context is renewed when the segment changes
ContextChanged(context, new_context) == context.start # new_context.start

\* faulty variant: a change of segment renews the loop state but keeps the
\* sub-motion counters
AdvanceResult_KeepsCounters(kf, n, loop_on, current_frame, ls, counters) ==
    LET context == ContextForFrame(kf, n, current_frame)
        step == NextFrameInSegment(context, current_frame, ls, counters)
        wrapped == WrapAtEnd(kf, n, loop_on, ls, step)
        final_next_frame == FindNextUnlockedFrame(kf, n, wrapped.next)
        new_context == ContextForFrame(kf, n, final_next_frame)
    IN IF final_next_frame = NoneIdx
       THEN [frame |-> NoneIdx, ls |-> ResetLoopState, counters |-> EmptyMap]
       ELSE IF ContextChanged(context, new_context)
       THEN [frame |-> final_next_frame,
             ls |-> UpdatePlaybackContext(kf, n, loop_on, final_next_frame),
             counters |-> wrapped.counters]
       ELSE [frame |-> final_next_frame, ls |-> wrapped.ls,
             counters |-> wrapped.counters]

\* lines 1109-1153 as a whole: the frame to resume at (NoneIdx: stop), the
\* loop state and the counters
AdvanceResult(kf, n, loop_on, current_frame, ls, counters) ==
    LET context == ContextForFrame(kf, n, current_frame)
        step == NextFrameInSegment(context, current_frame, ls, counters)
        wrapped == WrapAtEnd(kf, n, loop_on, ls, step)
        final_next_frame == FindNextUnlockedFrame(kf, n, wrapped.next)
        new_context == ContextForFrame(kf, n, final_next_frame)
    IN IF final_next_frame = NoneIdx
       THEN [frame |-> NoneIdx, ls |-> ResetLoopState, counters |-> EmptyMap]
       ELSE IF ContextChanged(context, new_context)
       THEN [frame |-> final_next_frame,
             ls |-> UpdatePlaybackContext(kf, n, loop_on, final_next_frame),
             counters |-> EmptyMap]
       ELSE [frame |-> final_next_frame, ls |-> wrapped.ls,
             counters |-> wrapped.counters]

(***************************************************************************)
(* The keyframe dialog (KeyframeSettingsDialog and _open_keyframe_dialog). *)
(***************************************************************************)
\* every keyframe record: what get_data() can return
KeyframeData ==
    [name : Names, type : KeyTypes, loop : LoopChoices, locked : BOOLEAN]

\* the records of the model's keyframe maps: an End keyframe has no name
\* (_update_ui_states empties the field), a Start or Middle keyframe has one
\* (one without is deleted), and a record is locked with its loop count at 0
\* (nothing reads the loop count of a locked keyframe)
StoredData ==
    {d \in KeyframeData :
        /\ (d.type = TypeEnd) = (d.name = "")
        /\ d.locked => d.loop = 0}

\* what the dialog's widgets hold when it is accepted: a record to store, or
\* an empty name on a Start or Middle keyframe
DialogData ==
    StoredData \cup
    {d \in KeyframeData :
        d.name = "" /\ d.type # TypeEnd /\ d.loop = 0 /\ ~d.locked}

\* how the dialog closes: rejected, the delete button confirmed, or accepted
\* with the data d
DialogOutcomes ==
    {[result |-> r, d |-> [name |-> "", type |-> TypeStart, loop |-> 0,
                           locked |-> FALSE]] : r \in {"cancel", "delete"}}
    \cup {[result |-> "ok", d |-> d] : d \in DialogData}

\* _generate_next_motion_name(): some non-empty name
PlaceholderName == "m"

\* KeyframeSettingsDialog.get_data(); the placeholder exists for a new keyframe
GetData(d, is_existing) ==
    [d EXCEPT !.name = IF d.name = "" /\ ~is_existing THEN PlaceholderName
                       ELSE d.name]

\* faulty variant: a keyframe without a name is removed whatever its type
ApplyDialog_EndRemoved(kf, frame_index, result, d) ==
    LET is_existing == frame_index \in DOMAIN kf
        new_data == GetData(d, is_existing)
    IN IF result = "cancel" THEN kf
       ELSE IF result = "delete" \/ new_data.name = ""
       THEN (IF is_existing THEN Drop(kf, frame_index) ELSE kf)
       ELSE Put(kf, frame_index, new_data)

\* lines 636-646: the keyframe map after the dialog for frame_index closed
ApplyDialog(kf, frame_index, result, d) ==
    LET is_existing == frame_index \in DOMAIN kf
        new_data == GetData(d, is_existing)
    IN IF result = "cancel" THEN kf
       ELSE IF result = "delete"
       THEN (IF is_existing THEN Drop(kf, frame_index) ELSE kf)
       ELSE IF new_data.name = "" /\ new_data.type # TypeEnd
       THEN (IF is_existing THEN Drop(kf, frame_index) ELSE kf)
       ELSE Put(kf, frame_index, new_data)

\* the delete button is enabled for an existing keyframe only; the map of the
\* model holds at most MaxKeys keyframes
DialogAllowed(kf, frame_index, result) ==
    /\ result = "delete" => frame_index \in DOMAIN kf
    /\ result = "ok" =>
          (frame_index \in DOMAIN kf \/ Cardinality(DOMAIN kf) < EditMaxKeys)

\* _is_simple_end_motion(frame_index)
IsSimpleEndMotion(kf, n, frame_index) ==
    LET context == ContextForFrame(kf, n, frame_index) IN
    /\ frame_index \in DOMAIN kf
    /\ kf[frame_index].type = TypeEnd
    /\ context.type = "simple_end"
    /\ context.end = frame_index

\* refresh_motion_list(): the frame indices the motion list's items carry
MotionListItems(kf, n) ==
    LET ctx(k) == ContextForFrame(kf, n, k) IN
    {ctx(key).start : key \in {k \in DOMAIN kf : ctx(k).type = "simple_end"}}
    \cup
    {sub_key \in DOMAIN kf :
        \E key \in DOMAIN kf :
            /\ ctx(key).type \notin {"none", "simple_end"}
            /\ ctx(key).start <= sub_key /\ sub_key <= ctx(key).end
            /\ kf[sub_key].type # TypeEnd
            /\ (kf[sub_key].locked \/ kf[sub_key].name # "")}

(***************************************************************************)
(* Handlers.  Each leaves `shown` to the specification that uses it.       *)
(***************************************************************************)
Frames == 0..(frameCount - 1)

isLocked(i) == IsLockedIn(keyframes, frameCount, i)

\* faulty variant: select_frame without its check for a locked frame
SelectFrameUser_NoLockCheck(index, op) ==
    IF ~(0 <= index /\ index < frameCount) \/ selected_index = index
    THEN /\ last_op' = "other"
         /\ UNCHANGED <<selected_index, play_checked, timer_active,
                        current_playback_frame_index,
                        is_in_complete_motion_loop, loop_return_point,
                        loop_end_point, sub_loop_counters>>
    ELSE /\ last_op' = "other"
         /\ selected_index' = index
         /\ current_playback_frame_index' = index
         /\ IF timer_active
            THEN StopPlaybackAndResetUi
            ELSE UNCHANGED <<play_checked, timer_active,
                             is_in_complete_motion_loop, loop_return_point,
                             loop_end_point, sub_loop_counters>>

\* select_frame(index) called by the user (from_playback and force_refresh off)
SelectFrameUser(index, op) ==
    IF ~(0 <= index /\ index < frameCount)
    THEN /\ last_op' = "other"
         /\ UNCHANGED <<selected_index, play_checked, timer_active,
                        current_playback_frame_index,
                        is_in_complete_motion_loop, loop_return_point,
                        loop_end_point, sub_loop_counters>>
    ELSE IF isLocked(index)
    THEN /\ last_op' = op \o ":locked"
         /\ UNCHANGED <<selected_index, play_checked, timer_active,
                        current_playback_frame_index,
                        is_in_complete_motion_loop, loop_return_point,
                        loop_end_point, sub_loop_counters>>
    ELSE IF selected_index = index
    THEN /\ last_op' = "other"
         /\ UNCHANGED <<selected_index, play_checked, timer_active,
                        current_playback_frame_index,
                        is_in_complete_motion_loop, loop_return_point,
                        loop_end_point, sub_loop_counters>>
    ELSE /\ last_op' = "other"
         /\ selected_index' = index
         /\ current_playback_frame_index' = index
         /\ IF timer_active
            THEN StopPlaybackAndResetUi
            ELSE UNCHANGED <<play_checked, timer_active,
                             is_in_complete_motion_loop, loop_return_point,
                             loop_end_point, sub_loop_counters>>

\* a click on a frame button, or a row of the frame list becoming current
SelectFrameCore(index) ==
    /\ UNCHANGED <<frameCount, keyframes, loop_checked>>
    /\ SelectFrameUser(index, "select_frame")

\* on_motion_item_changed: a row of the motion list becoming current; the
\* handler is the call select_frame(index)
MotionItemCore(index) == SelectFrameCore(index)

\* faulty variant: playback starts at the selected frame even when it is locked
PlayCore_NoRedirect ==
    /\ ~play_checked
    /\ UNCHANGED <<frameCount, keyframes, loop_checked>>
    /\ LET start == IF selected_index # NoneIdx THEN selected_index ELSE 0
       IN IF frameCount = 0
          THEN /\ last_op' = "play"
               /\ StopPlaybackAndResetUi
               /\ UNCHANGED <<selected_index, current_playback_frame_index>>
          ELSE /\ last_op' = "play"
               /\ StartPlaybackAt(start)

\* _on_play_pause_toggled(True): the user presses the play button
PlayCore ==
    /\ ~play_checked
    /\ UNCHANGED <<frameCount, keyframes, loop_checked>>
    /\ LET start_frame_index ==
               IF selected_index # NoneIdx THEN selected_index ELSE 0
           start ==
               IF isLocked(start_frame_index)
               THEN FindNextUnlockedFrame(keyframes, frameCount, start_frame_index)
               ELSE start_frame_index
       IN IF frameCount = 0
          THEN /\ last_op' = "play"
               /\ StopPlaybackAndResetUi
               /\ UNCHANGED <<selected_index, current_playback_frame_index>>
          ELSE IF start = NoneIdx
          THEN /\ last_op' = "play"
               /\ StopPlaybackAndResetUi
               /\ UNCHANGED <<selected_index, current_playback_frame_index>>
          ELSE /\ last_op' = "play"
               /\ StartPlaybackAt(start)

\* _on_play_pause_toggled(False): the user releases the play button
StopCore ==
    /\ play_checked
    /\ last_op' = "stop"
    /\ StopPlaybackAndResetUi
    /\ UNCHANGED <<frameCount, keyframes, loop_checked, selected_index,
                   current_playback_frame_index>>

\* _on_loop_toggled(checked)
LoopToggleCore ==
    /\ loop_checked' = ~loop_checked
    /\ last_op' = "other"
    /\ IF timer_active
       THEN /\ SetLoopState(UpdatePlaybackContext(keyframes, frameCount,
                                ~loop_checked, current_playback_frame_index))
            /\ sub_loop_counters' = EmptyMap
       ELSE UNCHANGED <<is_in_complete_motion_loop, loop_return_point,
                        loop_end_point, sub_loop_counters>>
    /\ UNCHANGED <<frameCount, keyframes, selected_index, play_checked,
                   timer_active, current_playback_frame_index>>

\* faulty variant: an advance that finds no unlocked frame re-arms the timer
AdvanceCore_NoStop ==
    /\ timer_active
    /\ UNCHANGED <<frameCount, keyframes, loop_checked>>
    /\ LET r == AdvanceResult(keyframes, frameCount, loop_checked,
                              current_playback_frame_index,
                              CurrentLoopState, sub_loop_counters)
       IN IF r.frame = NoneIdx
          THEN /\ last_op' = "advance:stopped"
               /\ UNCHANGED <<selected_index, current_playback_frame_index,
                              play_checked, timer_active,
                              is_in_complete_motion_loop, loop_return_point,
                              loop_end_point, sub_loop_counters>>
          ELSE /\ last_op' = "other"
               /\ current_playback_frame_index' = r.frame
               /\ selected_index' = r.frame
               /\ play_checked' = TRUE
               /\ timer_active' = TRUE
               /\ SetLoopState(r.ls)
               /\ sub_loop_counters' = r.counters

\* _advance_frame(): the timeout of the single-shot timer
AdvanceCore ==
    /\ timer_active
    /\ UNCHANGED <<frameCount, keyframes, loop_checked>>
    /\ IF ~play_checked \/ frameCount = 0
       THEN /\ last_op' = "other"
            /\ StopPlaybackAndResetUi
            /\ UNCHANGED <<selected_index, current_playback_frame_index>>
       ELSE LET r == AdvanceResult(keyframes, frameCount, loop_checked,
                                   current_playback_frame_index,
                                   CurrentLoopState, sub_loop_counters)
            IN IF r.frame = NoneIdx
               THEN /\ last_op' = "advance:stopped"
                    /\ StopPlaybackAndResetUi
                    /\ UNCHANGED <<selected_index, current_playback_frame_index>>
               ELSE /\ last_op' = "other"
                    /\ current_playback_frame_index' = r.frame
                    /\ selected_index' = r.frame
                    /\ play_checked' = TRUE
                    /\ timer_active' = TRUE
                    /\ SetLoopState(r.ls)
                    /\ sub_loop_counters' = r.counters

\* the keys _navigate_keyframe may go to: keyframes whose context is not locked
UnlockedKeys(kf, n) ==
    {k \in DOMAIN kf : ~ContextForFrame(kf, n, k).data.locked}

\* lines 1268-1276: the target of a navigation from current_idx
NavigateTarget(keys, current_idx, direction) ==
    IF direction = 1
    THEN (IF {k \in keys : k > current_idx} # {}
          THEN SetMin({k \in keys : k > current_idx})
          ELSE SetMin(keys))
    ELSE (IF {k \in keys : k < current_idx} # {}
          THEN SetMax({k \in keys : k < current_idx})
          ELSE SetMax(keys))

\* _navigate_keyframe(direction): the previous and next keyframe buttons
NavigateCore(direction) ==
    /\ UNCHANGED <<frameCount, keyframes, loop_checked>>
    /\ LET sorted_keys == UnlockedKeys(keyframes, frameCount)
           current_idx == IF selected_index = NoneIdx THEN 0 ELSE selected_index
           target_key == NavigateTarget(sorted_keys, current_idx, direction)
       IN IF DOMAIN keyframes = {}
          THEN /\ last_op' = "other"
               /\ UNCHANGED <<selected_index, play_checked, timer_active,
                              current_playback_frame_index,
                              is_in_complete_motion_loop, loop_return_point,
                              loop_end_point, sub_loop_counters>>
          ELSE IF sorted_keys = {}
          THEN /\ last_op' = "other"
               /\ UNCHANGED <<selected_index, current_playback_frame_index>>
               /\ IF timer_active
                  THEN StopPlaybackAndResetUi
                  ELSE UNCHANGED <<play_checked, timer_active,
                                   is_in_complete_motion_loop, loop_return_point,
                                   loop_end_point, sub_loop_counters>>
          ELSE IF timer_active
          THEN /\ last_op' = "other"
               /\ StartPlaybackAt(target_key)
          ELSE /\ last_op' = "other"
               /\ selected_index' = target_key
               /\ current_playback_frame_index' = target_key
               /\ UNCHANGED <<play_checked, timer_active,
                              is_in_complete_motion_loop, loop_return_point,
                              loop_end_point, sub_loop_counters>>

\* _on_primary_keyframe_button_clicked(), the dialog closing with (result, d)
PrimaryKeyframeButtonCore(o) ==
    /\ selected_index # NoneIdx
    /\ DialogAllowed(keyframes, selected_index, o.result)
    /\ keyframes' = ApplyDialog(keyframes, selected_index, o.result, o.d)
    /\ last_op' = "keyframe_button"
    /\ UNCHANGED <<frameCount, selected_index, play_checked, loop_checked,
                   timer_active, current_playback_frame_index,
                   is_in_complete_motion_loop, loop_return_point,
                   loop_end_point, sub_loop_counters>>

\* edit_motion_name(item): a double click on a row of the motion list
EditMotionNameCore(start_idx, o) ==
    /\ UNCHANGED <<frameCount, selected_index, play_checked, loop_checked,
                   timer_active, current_playback_frame_index,
                   is_in_complete_motion_loop, loop_return_point,
                   loop_end_point, sub_loop_counters>>
    /\ LET refused ==
               \/ (start_idx \in DOMAIN keyframes /\ keyframes[start_idx].locked)
               \/ IsSimpleEndMotion(keyframes, frameCount, start_idx)
       IN \/ /\ last_op' = "edit_motion_name:refused"
             /\ UNCHANGED keyframes
             /\ refused
          \/ /\ last_op' = "edit_motion_name"
             /\ DialogAllowed(keyframes, start_idx, o.result)
             /\ keyframes' = ApplyDialog(keyframes, start_idx, o.result, o.d)
             /\ ~refused

\* handle_frame_button_double_click(index): select_frame, then the dialog
DoubleClickCore(index, o) ==
    /\ DialogAllowed(keyframes, index, o.result)
    /\ keyframes' = ApplyDialog(keyframes, index, o.result, o.d)
    /\ UNCHANGED <<frameCount, loop_checked>>
    /\ SelectFrameUser(index, "double_click")

\* _load_gif_from_path(path) for a GIF of n frames with no project file next
\* to it: _reset_project_state, the frames, then select_frame(0, force_refresh)
LoadGifCore(n) ==
    /\ n > 0
    /\ frameCount' = n
    /\ keyframes' = EmptyMap
    /\ selected_index' = 0
    /\ current_playback_frame_index' = 0
    /\ StopPlaybackAndResetUi
    /\ last_op' = "load_gif"
    /\ UNCHANGED loop_checked

(***************************************************************************)
(* Spec: a GIF of FrameCount frames opened together with its project file, *)
(* which holds any keyframe map of at most MaxKeys keyframes; then the     *)
(* selection, navigation and playback handlers.  The keyframe map is fixed. *)
(***************************************************************************)
\* the keyframe maps with keys in 0..n-1 and at most max_keys keyframes
KeyframeMaps(n, max_keys) ==
    UNION {[S -> StoredData] :
              S \in {T \in SUBSET (0..(n - 1)) : Cardinality(T) <= max_keys}}

\* the state _load_gif_from_path leaves: _reset_project_state, the frames and
\* the keyframes of the project file, then select_frame(0, force_refresh=True),
\* which returns early on a locked frame 0
LoadedState(n, kf) ==
    /\ frameCount = n
    /\ keyframes = kf
    /\ selected_index = (IF IsLockedIn(kf, n, 0) THEN NoneIdx ELSE 0)
    /\ current_playback_frame_index = (IF IsLockedIn(kf, n, 0) THEN NoneIdx ELSE 0)
    /\ play_checked = FALSE
    /\ loop_checked = FALSE
    /\ timer_active = FALSE
    /\ is_in_complete_motion_loop = FALSE
    /\ loop_return_point = NoneIdx
    /\ loop_end_point = NoneIdx
    /\ sub_loop_counters = EmptyMap
    /\ last_op = "load_gif"
    /\ shown = <<>>

\* ... with no project file next to the GIF
Loaded(n, kf) == LoadedState(n, kf) /\ project_file = NoFile

Init == \E kf \in KeyframeMaps(FrameCount, MaxKeys) : Loaded(FrameCount, kf)

SelectFrame == \E i \in Frames : SelectFrameCore(i) /\ UNCHANGED <<shown, project_file>>

MotionItem ==
    \E i \in MotionListItems(keyframes, frameCount) :
        MotionItemCore(i) /\ UNCHANGED <<shown, project_file>>

Play == PlayCore /\ UNCHANGED <<shown, project_file>>

Stop == StopCore /\ UNCHANGED <<shown, project_file>>

LoopToggle == LoopToggleCore /\ UNCHANGED <<shown, project_file>>

Advance == AdvanceCore /\ UNCHANGED <<shown, project_file>>

Navigate == \E direction \in {-1, 1} : NavigateCore(direction) /\ UNCHANGED <<shown, project_file>>

Next ==
    \/ SelectFrame
    \/ Play
    \/ Stop
    \/ LoopToggle
    \/ Advance
    \/ Navigate

Spec == Init /\ [][Next]_vars

(***************************************************************************)
(* SpecQuery: the maps and the GIF of Spec, with the requests that query   *)
(* the context of frames while playback is stopped: frame selection, the   *)
(* motion list and keyframe navigation.                                    *)
(***************************************************************************)
NextQuery ==
    \/ SelectFrame
    \/ MotionItem
    \/ Navigate

SpecQuery == Init /\ [][NextQuery]_vars

(***************************************************************************)
(* SpecProgress: a GIF of ProgressFrames frames and a fixed keyframe map   *)
(* of at most ProgressMaxKeys keyframes; loop mode stays off.  The user    *)
(* selects frames while playback is stopped and presses play; from then on *)
(* only the playback timer acts.  The timer is single-shot and re-armed by *)
(* _resume_playback at the end of every advance, and the event loop        *)
(* delivers each timeout: weak fairness of Advance.                        *)
(***************************************************************************)
\* the timer is armed and its timeout changes the state: the state predicate
\* that ENABLED <<Advance>>_vars denotes
AdvancePending ==
    /\ timer_active
    /\ \/ ~play_checked
       \/ frameCount = 0
       \/ LET r == AdvanceResult(keyframes, frameCount, loop_checked,
                                 current_playback_frame_index,
                                 CurrentLoopState, sub_loop_counters)
          IN \/ r.frame = NoneIdx
             \/ last_op # "other"
             \/ current_playback_frame_index # r.frame
             \/ selected_index # r.frame
             \/ CurrentLoopState # r.ls
             \/ sub_loop_counters # r.counters

\* WF_vars(Advance), with ENABLED <<Advance>>_vars written as AdvancePending
AdvanceFairness == []<>(~AdvancePending) \/ []<><<Advance>>_vars

InitProgress ==
    \E kf \in KeyframeMaps(ProgressFrames, ProgressMaxKeys) : Loaded(ProgressFrames, kf)

ProgressSelectFrame == ~timer_active /\ SelectFrame

NextProgress ==
    \/ ProgressSelectFrame
    \/ Play
    \/ Advance

SpecProgress == InitProgress /\ [][NextProgress]_vars /\ AdvanceFairness

(***************************************************************************)
(* SpecEdit: the application from its construction, a GIF of EditFrames    *)
(* frames opened without a project file, then selection, navigation,       *)
(* playback and the keyframe dialog.  The dialog is opened and closed      *)
(* while playback is stopped, and loop mode stays off.                     *)
(***************************************************************************)
InitEdit ==
    /\ frameCount = 0
    /\ keyframes = EmptyMap
    /\ selected_index = NoneIdx
    /\ play_checked = FALSE
    /\ loop_checked = FALSE
    /\ timer_active = FALSE
    /\ current_playback_frame_index = NoneIdx
    /\ is_in_complete_motion_loop = FALSE
    /\ loop_return_point = NoneIdx
    /\ loop_end_point = NoneIdx
    /\ sub_loop_counters = EmptyMap
    /\ last_op = "init"
    /\ shown = <<>>
    /\ project_file = NoFile

LoadGif == LoadGifCore(EditFrames) /\ UNCHANGED <<shown, project_file>>

PrimaryKeyframeButton ==
    /\ ~timer_active
    /\ \E o \in DialogOutcomes : PrimaryKeyframeButtonCore(o) /\ UNCHANGED <<shown, project_file>>

EditMotionName ==
    /\ ~timer_active
    /\ \E i \in MotionListItems(keyframes, frameCount) :
          \E o \in DialogOutcomes : EditMotionNameCore(i, o) /\ UNCHANGED <<shown, project_file>>

DoubleClick ==
    /\ ~timer_active
    /\ \E i \in Frames :
          \E o \in DialogOutcomes : DoubleClickCore(i, o) /\ UNCHANGED <<shown, project_file>>

NextEdit ==
    \/ LoadGif
    \/ SelectFrame
    \/ MotionItem
    \/ Play
    \/ Stop
    \/ Advance
    \/ Navigate
    \/ PrimaryKeyframeButton
    \/ EditMotionName
    \/ DoubleClick

SpecEdit == InitEdit /\ [][NextEdit]_vars

(***************************************************************************)
(* SpecDialog: a GIF of DialogFrames frames is loaded, frames are selected *)
(* and the keyframe dialog is opened in its three ways; playback is never  *)
(* started.                                                                *)
(***************************************************************************)
LoadGifDialog == LoadGifCore(DialogFrames) /\ UNCHANGED <<shown, project_file>>

NextDialog ==
    \/ LoadGifDialog
    \/ SelectFrame
    \/ PrimaryKeyframeButton
    \/ EditMotionName
    \/ DoubleClick

SpecDialog == InitEdit /\ [][NextDialog]_vars

(***************************************************************************)
(* SpecLive: a GIF of LiveFrames frames is loaded and the keyframe dialog   *)
(* of the primary button is opened and closed at any time, also while      *)
(* playback runs (the dialog is modal, the playback timer keeps firing),   *)
(* and loop mode is toggled.                                               *)
(***************************************************************************)
LoadGifLive == LoadGifCore(LiveFrames) /\ UNCHANGED <<shown, project_file>>

LivePrimaryKeyframeButton ==
    \E o \in DialogOutcomes : PrimaryKeyframeButtonCore(o) /\ UNCHANGED <<shown, project_file>>

NextLive ==
    \/ LoadGifLive
    \/ Play
    \/ Stop
    \/ LoopToggle
    \/ Advance
    \/ LivePrimaryKeyframeButton

SpecLive == InitEdit /\ [][NextLive]_vars

(***************************************************************************)
(* Project files.  A file is [exists, valid, entries]: valid says that it  *)
(* can be read and parsed as a JSON object; entries is the "keyframes"     *)
(* member in file order, each entry a key string k (a sequence of          *)
(* characters) and a JSON value v, which is an object [kind, d], a string  *)
(* or a number [kind, s].  A record d of type 0 is an object without a     *)
(* "type" member.  A value that the loader stores without converting it    *)
(* to a record is kept in the map as [raw, s].                             *)
(***************************************************************************)
Digits == <<"0", "1", "2", "3", "4", "5", "6", "7", "8", "9">>

\* str(k) of a frame index
RECURSIVE IntToStr(_)
\* faulty variant: the key is written without its last digit when it has two
IntToStr_DropsDigit(n) ==
    IF n < Len(Digits) THEN <<Digits[n + 1]>>
    ELSE IntToStr(n \div Len(Digits))

IntToStr(n) ==
    IF n < Len(Digits) THEN <<Digits[n + 1]>>
    ELSE Append(IntToStr(n \div Len(Digits)), Digits[(n % Len(Digits)) + 1])

\* int(k) succeeds on a string of decimal digits, raises ValueError otherwise
IsDecimal(str) ==
    /\ str # <<>>
    /\ \A p \in 1..Len(str) : \E d \in 1..Len(Digits) : Digits[d] = str[p]

DigitValue(c) == (CHOOSE d \in 1..Len(Digits) : Digits[d] = c) - 1

RECURSIVE StrToInt(_)
StrToInt(str) ==
    IF Len(str) = 1 THEN DigitValue(str[1])
    ELSE Len(Digits) * StrToInt(SubSeq(str, 1, Len(str) - 1))
         + DigitValue(str[Len(str)])

\* the strings among the file values on which `'type' in v` is true
StringsContainingType == {"prototype"}
FileStrings == {"m"} \cup StringsContainingType

IsRaw(v) == "raw" \in DOMAIN v
HasRaw(kf) == \E k \in DOMAIN kf : IsRaw(kf[k])

\* the JSON value json.dump writes for a stored value, and the value
\* json.load hands to the loaders
ToFileValue(v) ==
    IF IsRaw(v) THEN [kind |-> v.raw, s |-> v.s]
    ELSE [kind |-> "object", d |-> v]

FromFileValue(v) ==
    IF v.kind = "object" THEN v.d ELSE [raw |-> v.kind, s |-> v.s]

\* the loop of load_settings over the entries from position p on; the map
\* was cleared before the loop, an exception leaves what was stored so far
RECURSIVE LoadSettingsLoop(_, _, _)
LoadSettingsLoop(entries, p, kf) ==
    IF p > Len(entries) THEN [ok |-> TRUE, keyframes |-> kf]
    ELSE
    LET k == entries[p].k
        v == entries[p].v
    IN
    IF v.kind = "number"
    THEN [ok |-> FALSE, keyframes |-> kf]      \* 'type' not in v: TypeError
    ELSE IF v.kind = "string" /\ v.s \notin StringsContainingType
    THEN [ok |-> FALSE, keyframes |-> kf]      \* v['type'] = 1: TypeError
    ELSE IF ~IsDecimal(k)
    THEN [ok |-> FALSE, keyframes |-> kf]      \* int(k): ValueError
    ELSE IF v.kind = "string"
    THEN LoadSettingsLoop(entries, p + 1,
             Put(kf, StrToInt(k),
                 [name |-> v.s, type |-> TypeStart, loop |-> 0,
                  locked |-> FALSE]))
    ELSE LoadSettingsLoop(entries, p + 1,
             Put(kf, StrToInt(k),
                 IF v.d.type = 0 THEN [v.d EXCEPT !.type = TypeStart]
                 ELSE v.d))

\* load_settings(): the user picks the project file of the GIF
LoadSettingsCore ==
    /\ project_file.exists
    /\ frameCount > 0
    /\ IF ~project_file.valid
       THEN /\ last_op' = "load_settings:failed"
            /\ UNCHANGED keyframes
       ELSE LET r == LoadSettingsLoop(project_file.entries, 1, EmptyMap)
            IN /\ keyframes' = r.keyframes
               /\ last_op' = IF r.ok THEN "load_settings"
                             ELSE "load_settings:failed"
    /\ UNCHANGED <<frameCount, selected_index, play_checked, loop_checked,
                   timer_active, current_playback_frame_index,
                   is_in_complete_motion_loop, loop_return_point,
                   loop_end_point, sub_loop_counters, project_file>>

\* the orders in which a dict with these keys is iterated
KeyOrders(kf) ==
    {q \in [1..Cardinality(DOMAIN kf) -> DOMAIN kf] :
        \A i, j \in DOMAIN q : q[i] = q[j] => i = j}

SavedFile(kf, q) ==
    [exists |-> TRUE, valid |-> TRUE,
     entries |-> [p \in DOMAIN q |->
                     [k |-> IntToStr(q[p]), v |-> ToFileValue(kf[q[p]])]]]

\* save_settings() to the project file of the GIF
SaveSettingsCore ==
    /\ frameCount > 0
    /\ \E q \in KeyOrders(keyframes) : project_file' = SavedFile(keyframes, q)
    /\ last_op' = "save_settings"
    /\ UNCHANGED <<frameCount, keyframes, selected_index, play_checked,
                   loop_checked, timer_active, current_playback_frame_index,
                   is_in_complete_motion_loop, loop_return_point,
                   loop_end_point, sub_loop_counters>>

\* the loop of _load_data_sources over the entries from position p on
RECURSIVE LoadDataSourcesLoop(_, _, _)
LoadDataSourcesLoop(entries, p, kf) ==
    IF p > Len(entries) THEN [ok |-> TRUE, keyframes |-> kf]
    ELSE IF ~IsDecimal(entries[p].k)
    THEN [ok |-> FALSE, keyframes |-> kf]      \* int(k): ValueError
    ELSE LoadDataSourcesLoop(entries, p + 1,
             Put(kf, StrToInt(entries[p].k), FromFileValue(entries[p].v)))

\* _load_gif_from_path() of a GIF with n frames whose .gifproj exists
LoadGifFileCore(n) ==
    /\ n > 0
    /\ project_file.exists
    /\ StopPlaybackAndResetUi
    /\ UNCHANGED <<loop_checked, project_file>>
    /\ LET r == IF project_file.valid
                THEN LoadDataSourcesLoop(project_file.entries, 1, EmptyMap)
                ELSE [ok |-> FALSE, keyframes |-> EmptyMap]
           kf == r.keyframes
           first == kf[SetMin(DOMAIN kf)]
       IN IF ~r.ok
          THEN \* the failure is reported and the project state reset again
               /\ frameCount' = 0
               /\ keyframes' = EmptyMap
               /\ selected_index' = NoneIdx
               /\ last_op' = "load_gif:failed"
               /\ UNCHANGED current_playback_frame_index
          ELSE /\ frameCount' = n
               /\ keyframes' = kf
               /\ IF ~HasRaw(kf)
                  THEN \* select_frame(0, force_refresh=True)
                       IF IsLockedIn(kf, n, 0)
                       THEN /\ selected_index' = NoneIdx
                            /\ last_op' = "load_gif"
                            /\ UNCHANGED current_playback_frame_index
                       ELSE /\ selected_index' = 0
                            /\ current_playback_frame_index' = 0
                            /\ last_op' = "load_gif"
                  ELSE IF IsRaw(first) \/ first.type # TypeEnd
                  THEN \* .get() on a str or a number raises in the context
                       \* query of select_frame, before the selection
                       /\ selected_index' = NoneIdx
                       /\ last_op' = "load_gif:error"
                       /\ UNCHANGED current_playback_frame_index
                  ELSE IF first.locked
                  THEN \* frame 0 is in the locked segment before the End
                       /\ selected_index' = NoneIdx
                       /\ last_op' = "load_gif"
                       /\ UNCHANGED current_playback_frame_index
                  ELSE \* .get() raises in full_refresh, after the selection
                       /\ selected_index' = 0
                       /\ last_op' = "load_gif:error"
                       /\ UNCHANGED current_playback_frame_index

(***************************************************************************)
(* SpecFile: a GIF of FileFrames frames is loaded, its keyframe map holds  *)
(* at most one keyframe, at the first or at the last frame, and any        *)
(* project file may lie next to the GIF.  The project is saved, loaded     *)
(* from that file, and the GIF is loaded again together with the file.     *)
(***************************************************************************)
FileKeys == {0, FileFrames - 1}

FileMaps == {EmptyMap} \cup {k :> d : k \in FileKeys, d \in StoredData}

FileObjects ==
    {[name |-> "m", type |-> TypeStart, loop |-> 0, locked |-> FALSE],
     [name |-> "", type |-> TypeEnd, loop |-> 0, locked |-> TRUE],
     [name |-> "m", type |-> 0, loop |-> 0, locked |-> FALSE]}

FileValues ==
    {[kind |-> "object", d |-> d] : d \in FileObjects}
    \cup {[kind |-> "string", s |-> str] : str \in FileStrings}
    \cup {[kind |-> "number", s |-> "7"]}

FileKeyStrings == {IntToStr(k) : k \in FileKeys} \cup {<<"x">>}

\* a JSON object holds each key once
ProjectFiles ==
    {[exists |-> TRUE, valid |-> FALSE, entries |-> <<>>]}
    \cup {[exists |-> TRUE, valid |-> TRUE, entries |-> e] :
            e \in {q \in UNION {[1..m -> [k : FileKeyStrings, v : FileValues]] :
                                    m \in 0..MaxEntries} :
                      \A i, j \in DOMAIN q : q[i].k = q[j].k => i = j}}

InitFile ==
    /\ \E kf \in FileMaps : LoadedState(FileFrames, kf)
    /\ project_file \in {NoFile} \cup ProjectFiles

SaveSettings == SaveSettingsCore /\ UNCHANGED shown

LoadSettings == LoadSettingsCore /\ UNCHANGED shown

LoadGifFile == LoadGifFileCore(FileFrames) /\ UNCHANGED shown

NextFile ==
    \/ SaveSettings
    \/ LoadSettings
    \/ LoadGifFile

SpecFile == InitFile /\ [][NextFile]_vars

(***************************************************************************)
(* SpecExample: the 10-frame GIF of the specification's example, opened    *)
(* with a project file holding Start at 0, Middle (loop 2) at 3 and End at *)
(* 9.  Loop mode stays off.  `shown` records the frames playback displays  *)
(* from the frame it (re)starts at; an advance is taken while fewer than   *)
(* MaxShown frames are recorded.                                           *)
(***************************************************************************)
ExampleKeyframes ==
    (0 :> [name |-> "m", type |-> TypeStart, loop |-> 0, locked |-> FALSE])
    @@ (3 :> [name |-> "m", type |-> TypeMiddle, loop |-> 2, locked |-> FALSE])
    @@ (9 :> [name |-> "", type |-> TypeEnd, loop |-> 0, locked |-> FALSE])

\* the End keyframe of the example is its last frame
ExampleFrames == SetMax(DOMAIN ExampleKeyframes) + 1

InitExample == Loaded(ExampleFrames, ExampleKeyframes)

\* _resume_playback displays the frame it resumes at
Restarted ==
    /\ shown' = IF timer_active' THEN <<current_playback_frame_index'>>
                ELSE shown
    /\ UNCHANGED project_file

ExSelectFrame == \E i \in Frames : SelectFrameCore(i) /\ UNCHANGED <<shown, project_file>>

ExPlay == PlayCore /\ Restarted

ExStop == StopCore /\ UNCHANGED <<shown, project_file>>

ExAdvance ==
    /\ Len(shown) < MaxShown
    /\ AdvanceCore
    /\ shown' = IF timer_active'
                THEN Append(shown, current_playback_frame_index')
                ELSE shown
    /\ UNCHANGED project_file

ExNavigate == \E direction \in {-1, 1} : NavigateCore(direction) /\ Restarted

NextExample ==
    \/ ExSelectFrame
    \/ ExPlay
    \/ ExStop
    \/ ExAdvance
    \/ ExNavigate

SpecExample == InitExample /\ [][NextExample]_vars

(***************************************************************************)
(* Properties.                                                             *)
(***************************************************************************)
\* faulty variant: the segment of a frame ends at that frame
ctx_EndsAtFrame(i) ==
    LET context == ContextForFrame(keyframes, frameCount, i)
    IN IF context.type = "none" THEN context ELSE [context EXCEPT !.end = i]

ctx(i) == ContextForFrame(keyframes, frameCount, i)

\* one pass over the example: 0..9, then 3..9 twice more
ExpectedCycle ==
    <<0, 1, 2, 3, 4, 5, 6, 7, 8, 9, 3, 4, 5, 6, 7, 8, 9, 3, 4, 5, 6, 7, 8, 9>>

ExpectedFrame(k) == ExpectedCycle[((k - 1) % Len(ExpectedCycle)) + 1]

\* C1 (SpecExample): with Start at 0, Middle (loop 2) at 3 and End at 9 in a
\* GIF of 10 frames, nothing locked and loop mode off, playback started at
\* frame 0 displays 0..9, 3..9, 3..9 and then 0, 1, ... again.
C1_ExampleTrace ==
    (shown # <<>> /\ shown[1] = 0) =>
        \A k \in 1..Len(shown) : shown[k] = ExpectedFrame(k)

\* playback started at 0 has displayed more than one whole pass
C1_Witness ==
    /\ Len(shown) = MaxShown
    /\ Len(shown) > Len(ExpectedCycle)
    /\ shown[1] = 0
    /\ timer_active

\* a sub-motion of the context that ends at frame f and has repeats left
PendingRepeat(context, f, counters) ==
    \E j \in 1..Len(context.sub_motions) :
        /\ context.sub_motions[j].end = f
        /\ CounterOf(counters, context.sub_motions[j].start)
               < context.sub_motions[j].data.loop

\* C2 (Spec): with loop mode off every sub-motion is repeated loopCount times
\* on every pass: an advance that enters a sub-motion at its start, other
\* than by the jump that repeats it, finds its counter at 0, and an advance
\* leaves the end of a sub-motion only after loopCount repeats.
C2_RepeatsOnEveryPass ==
    [][(Advance /\ ~loop_checked /\ timer_active') =>
        LET context == ctx(current_playback_frame_index)
            new_context == ctx(current_playback_frame_index')
            repeats == PendingRepeat(context, current_playback_frame_index,
                                     sub_loop_counters)
        IN /\ ~repeats =>
                 \A j \in 1..Len(new_context.sub_motions) :
                     new_context.sub_motions[j].start
                         = current_playback_frame_index'
                     => CounterOf(sub_loop_counters',
                                  current_playback_frame_index') = 0
           /\ ~repeats =>
                 \A j \in 1..Len(context.sub_motions) :
                     context.sub_motions[j].end = current_playback_frame_index
                     => CounterOf(sub_loop_counters,
                                  context.sub_motions[j].start)
                            = context.sub_motions[j].data.loop
    ]_vars

\* C3 (Spec): while playback runs over an unmodified keyframe map the current
\* playback frame is never a locked frame.
C3_NoLockedFrameShown ==
    timer_active => ~isLocked(current_playback_frame_index)

\* playback has stepped over a locked frame: the frame before the current
\* one is locked
C3_Witness ==
    /\ timer_active
    /\ last_op = "other"
    /\ frameCount > 0
    /\ isLocked((current_playback_frame_index + frameCount - 1) % frameCount)
    /\ ~isLocked(current_playback_frame_index)

\* what C4 says a refused selection leaves alone
SelectionState ==
    <<selected_index, current_playback_frame_index, play_checked, timer_active,
      keyframes, frameCount, loop_checked, is_in_complete_motion_loop,
      loop_return_point, loop_end_point, sub_loop_counters>>

\* C4 (SpecEdit): selecting a locked frame by a click or by a list selection
\* (every one of these handlers is the call select_frame(i), SelectFrameCore)
\* leaves the selected frame, the playback state and the keyframe map
\* unchanged (a step that changes any of them is not the selection of a
\* locked frame), and navigation only goes to keyframes that are not locked.
C4_LockedFrameNotSelectable ==
    [][/\ \/ UNCHANGED SelectionState
          \/ \A i \in Frames :
                ~(SelectFrameCore(i) /\ isLocked(i))
       /\ \A direction \in {-1, 1} :
            (selected_index' # selected_index /\ NavigateCore(direction))
            => /\ selected_index' \in DOMAIN keyframes
               /\ ~isLocked(selected_index')
    ]_vars

\* a click on a locked frame was refused while playback was running
C4_Witness ==
    /\ last_op = "select_frame:locked"
    /\ timer_active
    /\ \E i \in Frames : isLocked(i)

\* C5 (SpecEdit): a double click on a locked frame does not open the keyframe
\* editor and does not change the keyframe map.
C5_LockedFrameNotEditable ==
    [][\A i \in Frames :
          (isLocked(i) /\ \E o \in DialogOutcomes : DoubleClickCore(i, o))
          => keyframes' = keyframes
    ]_vars

\* the sub-motions of a context tile its segment and start at the non-End
\* keyframes of kf inside it
TilesSegment(kf, context) ==
    LET sm == context.sub_motions IN
    /\ Len(sm) >= 1
    /\ sm[1].start = context.start
    /\ sm[Len(sm)].end = context.end
    /\ \A j \in 1..(Len(sm) - 1) :
          /\ sm[j].start < sm[j + 1].start
          /\ sm[j].end = sm[j + 1].start - 1
    /\ {sm[j].start : j \in 1..Len(sm)}
          = {k \in DOMAIN kf : /\ context.start <= k
                               /\ k <= context.end
                               /\ kf[k].type # TypeEnd}

\* C6 (Spec): contextForFrame(5) of the example (Start 0, Middle 3, End 9, 10
\* frames) is the complete segment [0,9] with sub-motions [0,2] and [3,9];
\* and for every keyframe map and every frame with a simple or complete
\* context the sub-motions start at the non-End keyframes of the segment, in
\* increasing order, and tile the segment without gap or overlap.  The map
\* never changes in Spec, so each map is examined in the states a play
\* request leaves.
C6_SubMotionsTile ==
    /\ LET context == ContextForFrame(ExampleKeyframes, ExampleFrames, 5)
       IN /\ context.start = 0 /\ context.end = 9 /\ context.type = "complete"
          /\ Len(context.sub_motions) = 2
          /\ context.sub_motions[1].start = 0 /\ context.sub_motions[1].end = 2
          /\ context.sub_motions[2].start = 3 /\ context.sub_motions[2].end = 9
    /\ last_op = "play" =>
          \A i \in Frames :
              ctx(i).type \in {"simple", "complete"}
              => TilesSegment(keyframes, ctx(i))

\* playback shows a frame whose segment has two sub-motions
C6_Witness ==
    /\ last_op = "play"
    /\ timer_active
    /\ ctx(current_playback_frame_index).type \in {"simple", "complete"}
    /\ Len(ctx(current_playback_frame_index).sub_motions) >= 2

\* two contexts with the same start, end, type and sub-motion ranges
SameRanges(c1, c2) ==
    /\ c1.start = c2.start
    /\ c1.end = c2.end
    /\ c1.type = c2.type
    /\ Len(c1.sub_motions) = Len(c2.sub_motions)
    /\ \A j \in 1..Len(c1.sub_motions) :
          /\ c1.sub_motions[j].start = c2.sub_motions[j].start
          /\ c1.sub_motions[j].end = c2.sub_motions[j].end

\* kf with the keyframe at s locked
WithLocked(kf, s) == Put(kf, s, [kf[s] EXCEPT !.locked = TRUE])

\* locking the Start keyframe at s of kf locks its segment and moves no range
LockChangesOnlyLockStatus(kf, n, s) ==
    /\ \A i \in 0..(n - 1) :
          SameRanges(ContextForFrame(kf, n, i),
                     ContextForFrame(WithLocked(kf, s), n, i))
    /\ ContextForFrame(kf, n, s).start = s
    /\ \A i \in 0..(n - 1) :
          (/\ ContextForFrame(kf, n, i).type \in {"simple", "complete"}
           /\ ContextForFrame(kf, n, i).start = s)
          => IsLockedIn(WithLocked(kf, s), n, i)

\* C7 (SpecEdit): a dialog that sets locked on the unlocked Start keyframe at
\* s makes every frame of the segment anchored at s locked (all of 0..9 in
\* the example) and leaves the start, end, type and sub-motion ranges of
\* every frame's context as they were.
C7_LockChangesOnlyLockStatus ==
    /\ LockChangesOnlyLockStatus(ExampleKeyframes, ExampleFrames, 0)
    /\ \A i \in 0..(ExampleFrames - 1) :
          IsLockedIn(WithLocked(ExampleKeyframes, 0), ExampleFrames, i)
    /\ [][\A s \in Frames :
            (/\ s \in DOMAIN keyframes
             /\ keyframes[s].type = TypeStart
             /\ ~keyframes[s].locked
             /\ keyframes' = WithLocked(keyframes, s))
            => LockChangesOnlyLockStatus(keyframes, frameCount, s)
       ]_vars

\* the dialog has just locked the selected Start keyframe, whose segment has
\* further frames
C7_Witness ==
    /\ last_op = "keyframe_button"
    /\ selected_index \in DOMAIN keyframes
    /\ keyframes[selected_index].type = TypeStart
    /\ keyframes[selected_index].locked
    /\ selected_index + 1 < frameCount
    /\ ctx(selected_index + 1).start = selected_index

\* the j-th frame (j = 1..frameCount) of the circular order that begins at start
CircularOrder(start, j) == (start + j - 1) % frameCount

\* the first frame of the circular order from start that is not locked
FirstUnlockedFrom(start) ==
    LET unlocked == {j \in 1..frameCount : ~isLocked(CircularOrder(start, j))}
    IN IF unlocked = {} THEN NoneIdx
       ELSE CircularOrder(start, SetMin(unlocked))

\* C8 (Spec): nextUnlockedFrame(start), 0 <= start < frameCount, is the first
\* frame of start, start+1, ..., frameCount-1, 0, ..., start-1 that is not
\* locked; it is -1 exactly when every frame is locked, and then it has
\* examined exactly frameCount candidates.  The map never changes in Spec, so
\* each map is examined in the states a play request leaves.
C8_NextUnlockedFrame ==
    last_op = "play" =>
    \A start \in Frames :
        LET r == FindNextUnlocked(keyframes, frameCount, start) IN
        /\ r.frame = FirstUnlockedFrom(start)
        /\ (r.frame = NoneIdx) <=> (\A i \in Frames : isLocked(i))
        /\ (r.frame = NoneIdx) => (r.examined = frameCount)
        /\ r.frame = FindNextUnlockedFrame(keyframes, frameCount, start)

\* a play request found every frame locked and playback stayed stopped
C8_Witness ==
    /\ frameCount > 0
    /\ \A i \in Frames : isLocked(i)
    /\ last_op = "play"
    /\ ~play_checked
    /\ ~timer_active

\* C9 (Spec): with loop mode on and the playback frame in an unlocked segment
\* [s,e], an advance displays a frame of [s,e]; from e, once the sub-motion
\* ending at e has no repeats left, it displays s and clears all sub-motion
\* counters.
C9_LoopCurrentMotion ==
    [][(timer_active /\ play_checked /\ loop_checked /\ Advance) =>
        LET context == ctx(current_playback_frame_index) IN
        (context.type # "none" /\ ~context.data.locked) =>
            /\ timer_active'
            /\ context.start <= current_playback_frame_index'
            /\ current_playback_frame_index' <= context.end
            /\ (/\ current_playback_frame_index = context.end
                /\ ~PendingRepeat(context, current_playback_frame_index,
                                  sub_loop_counters))
               => /\ current_playback_frame_index' = context.start
                  /\ sub_loop_counters' = EmptyMap
    ]_vars

\* loop mode is on and playback stands at the end of a segment of several
\* frames that does not reach the last frame, all repeats of the sub-motion
\* ending there done
C9_Witness ==
    /\ timer_active
    /\ loop_checked
    /\ LET context == ctx(current_playback_frame_index) IN
       /\ context.type # "none"
       /\ context.start < context.end
       /\ context.end = current_playback_frame_index
       /\ context.end < frameCount - 1
       /\ \E j \in 1..Len(context.sub_motions) :
             /\ context.sub_motions[j].end = context.end
             /\ context.sub_motions[j].data.loop > 0
             /\ CounterOf(sub_loop_counters, context.sub_motions[j].start)
                    = context.sub_motions[j].data.loop

\* C10 (Spec): a play request while stopped with frames loaded starts at the
\* selected frame (0 if none is selected); that frame is the first displayed
\* if it is not locked, and otherwise the first displayed is the first
\* unlocked frame in circular order from it.
C10_PlayStart ==
    [][(~play_checked /\ ~timer_active /\ frameCount > 0 /\ Play) =>
        LET start_frame == IF selected_index = NoneIdx THEN 0 ELSE selected_index
            first == IF isLocked(start_frame)
                     THEN FirstUnlockedFrom(start_frame)
                     ELSE start_frame
        IN first # NoneIdx =>
              /\ timer_active'
              /\ play_checked'
              /\ current_playback_frame_index' = first
              /\ selected_index' = first
    ]_vars

\* playback was started from a locked frame 0 and shows a later frame
C10_Witness ==
    /\ last_op = "play"
    /\ timer_active
    /\ isLocked(0)
    /\ current_playback_frame_index > 0

\* every frame of the sequence is locked
AllLocked == \A i \in Frames : isLocked(i)

\* playback is stopped with the loop state and the counters cleared
StoppedAndCleared ==
    /\ ~timer_active
    /\ ~play_checked
    /\ ~is_in_complete_motion_loop
    /\ loop_return_point = NoneIdx
    /\ loop_end_point = NoneIdx
    /\ sub_loop_counters = EmptyMap

\* C11 (SpecLive): when every frame is locked a play request leaves playback
\* stopped, and an advance that finds no unlocked frame (an edit locked every
\* frame during playback) stops playback, the timer not re-armed, the loop
\* state and the counters cleared; an advance with an unlocked frame left
\* never stops playback.
C11_AllLockedStops ==
    [][/\ (~play_checked /\ frameCount > 0 /\ PlayCore /\ AllLocked)
            => (~timer_active' /\ ~play_checked')
       /\ (play_checked /\ AdvanceCore)
            => IF AllLocked
               THEN /\ StoppedAndCleared'
                    /\ current_playback_frame_index'
                          = current_playback_frame_index
               ELSE timer_active' /\ play_checked'
    ]_vars

\* an advance found every frame locked and stopped playback
C11_Witness ==
    /\ last_op = "advance:stopped"
    /\ frameCount > 0
    /\ AllLocked
    /\ StoppedAndCleared

\* indices just outside the sequence, on both sides
OutOfRange == {-2, -1, frameCount, frameCount + 1}

\* C12 (Spec): for every keyframe map, a frame index below 0 or at or above
\* the frame count has the none context and is not locked.
C12_OutOfRangeIsNone ==
    \A i \in OutOfRange : ctx(i).type = "none" /\ ~isLocked(i)

\* C13 (SpecFile): a project load that reports a failure leaves the keyframe
\* map exactly as it was before the load.
C13_LoadAllOrNothing ==
    [][(LoadSettingsCore /\ last_op' = "load_settings:failed")
          => keyframes' = keyframes]_vars

\* the keys of the entries are frame indices and the values are objects or
\* bare strings, at least one of them a bare string
OldSchemaFile(f) ==
    /\ f.exists /\ f.valid
    /\ \A p \in DOMAIN f.entries :
          IsDecimal(f.entries[p].k) /\ f.entries[p].v.kind # "number"
    /\ \E p \in DOMAIN f.entries : f.entries[p].v.kind = "string"

\* the record a bare string s is upgraded to
Upgraded(str) ==
    [name |-> str, type |-> TypeStart, loop |-> 0, locked |-> FALSE]

\* C14 (SpecFile): the explicit load and the automatic load of a project
\* file with bare string values succeed and store, for every bare string s,
\* the record {name: s, type: 1, loop: 0, locked: false} at its frame index.
C14_OldSchemaUpgrade ==
    [][(OldSchemaFile(project_file)
          /\ (LoadSettingsCore \/ LoadGifFileCore(FileFrames)))
        => /\ last_op' \in {"load_settings", "load_gif"}
           /\ \A p \in DOMAIN project_file.entries :
                 LET e == project_file.entries[p]
                 IN e.v.kind = "string"
                       => /\ StrToInt(e.k) \in DOMAIN keyframes'
                          /\ keyframes'[StrToInt(e.k)] = Upgraded(e.v.s)
    ]_vars

\* every value is a record with a type in {1, 2, 9}
WellFormed(kf) ==
    \A k \in DOMAIN kf : ~IsRaw(kf[k]) /\ kf[k].type \in KeyTypes

\* C15 (SpecFile): loading the file that a save of a map of complete records
\* has just written succeeds and yields a map equal to the one saved.
C15_SaveLoadRoundTrip ==
    [][(last_op = "save_settings" /\ WellFormed(keyframes) /\ LoadSettingsCore)
          => (last_op' = "load_settings" /\ keyframes' = keyframes)]_vars

\* a map with a two-digit frame index was loaded from the file a save of it
\* writes
C15_Witness ==
    /\ last_op = "load_settings"
    /\ WellFormed(keyframes)
    /\ \E k \in DOMAIN keyframes : Len(IntToStr(k)) > 1
    /\ \E q \in KeyOrders(keyframes) : project_file = SavedFile(keyframes, q)

\* the keyframe with the smallest index
FirstKey == SetMin(DOMAIN keyframes)

\* C16 (Spec): when the keyframe with the smallest index e has type End,
\* every frame 0..e has the simple_end context [0, e] whose data is that
\* keyframe; with End at 0 as the only keyframe every frame after 0 has the
\* none context.
C16_SimpleEndPreSegment ==
    (last_op = "load_gif" /\ keyframes # EmptyMap
        /\ keyframes[FirstKey].type = TypeEnd)
    => /\ \A i \in 0..FirstKey :
             /\ ctx(i).type = "simple_end"
             /\ ctx(i).start = 0
             /\ ctx(i).end = FirstKey
             /\ ctx(i).data = keyframes[FirstKey]
       /\ DOMAIN keyframes = {0}
             => \A i \in Frames \ {0} : ctx(i).type = "none"

\* a locked End keyframe after frame 0 is the first keyframe
C16_Witness ==
    /\ last_op = "load_gif"
    /\ keyframes # EmptyMap
    /\ FirstKey > 0
    /\ keyframes[FirstKey].type = TypeEnd
    /\ keyframes[FirstKey].locked
    /\ ctx(0).type = "simple_end"

\* C17 (Spec): with a single keyframe, of type Start at s, every frame from s
\* on has the context [s, frameCount-1] of type simple and every frame before
\* s has the none context.
C17_SingleStart ==
    (last_op = "load_gif" /\ Cardinality(DOMAIN keyframes) = 1
        /\ keyframes[FirstKey].type = TypeStart)
    => \A i \in Frames :
          IF i >= FirstKey
          THEN /\ ctx(i).type = "simple"
               /\ ctx(i).start = FirstKey
               /\ ctx(i).end = frameCount - 1
          ELSE ctx(i).type = "none"

\* the single Start keyframe lies after frame 0 and before the last frame
C17_Witness ==
    /\ last_op = "load_gif"
    /\ Cardinality(DOMAIN keyframes) = 1
    /\ keyframes[FirstKey].type = TypeStart
    /\ 0 < FirstKey /\ FirstKey < frameCount - 1
    /\ ctx(FirstKey - 1).type = "none"
    /\ ctx(frameCount - 1).start = FirstKey

\* the keyframes before k, and the nearest of them
KeysBefore(k) == {j \in DOMAIN keyframes : j < k}
NearestBefore(k) == SetMax(KeysBefore(k))

\* a Middle keyframe whose nearest keyframe before it is a Start or a Middle
Continuation(k) ==
    /\ keyframes[k].type = TypeMiddle
    /\ KeysBefore(k) # {}
    /\ keyframes[NearestBefore(k)].type \in {TypeStart, TypeMiddle}

\* the classification of a keyframe as the start of a segment
SegmentStartRule(k) ==
    \/ keyframes[k].type = TypeStart
    \/ (keyframes[k].locked /\ keyframes[k].type # TypeEnd)
    \/ (keyframes[k].type = TypeMiddle /\ ~Continuation(k))

\* the segment that holds keyframe k starts at k
UsedAsSegmentStart(k) ==
    ctx(k).type \in {"simple", "complete"} /\ ctx(k).start = k

\* C19 (Spec): a keyframe is used as a segment start exactly when it is a
\* Start, or locked and not an End, or a Middle that does not continue a
\* Start or Middle directly before it; a Middle that is the first keyframe or
\* directly follows an End starts its own segment, and an unlocked Middle
\* directly after a locked Start belongs to the locked segment.
C19_TrueStartClassification ==
    last_op = "load_gif" =>
        \A k \in DOMAIN keyframes :
            /\ UsedAsSegmentStart(k) <=> SegmentStartRule(k)
            /\ (keyframes[k].type = TypeMiddle
                  /\ (KeysBefore(k) = {}
                        \/ keyframes[NearestBefore(k)].type = TypeEnd))
                 => UsedAsSegmentStart(k)
            /\ (keyframes[k].type = TypeMiddle /\ ~keyframes[k].locked
                  /\ KeysBefore(k) # {}
                  /\ keyframes[NearestBefore(k)].type = TypeStart
                  /\ keyframes[NearestBefore(k)].locked)
                 => /\ ctx(k).start = NearestBefore(k)
                    /\ isLocked(k)

\* a Middle directly after an End starts its own segment
C19_Witness ==
    /\ last_op = "load_gif"
    /\ \E k \in DOMAIN keyframes :
          /\ keyframes[k].type = TypeMiddle
          /\ KeysBefore(k) # {}
          /\ keyframes[NearestBefore(k)].type = TypeEnd
          /\ UsedAsSegmentStart(k)

\* the segment starts at or before frame i, and the first keyframe after
\* start s that closes its segment: a segment start or an End
StartsUpTo(i) == {k \in DOMAIN keyframes : SegmentStartRule(k) /\ k <= i}
ClosersAfter(s) ==
    {k \in DOMAIN keyframes :
        k > s /\ (SegmentStartRule(k) \/ keyframes[k].type = TypeEnd)}

ExpectedEnd(s) ==
    IF ClosersAfter(s) = {} THEN [end |-> frameCount - 1, type |-> "simple"]
    ELSE LET k == SetMin(ClosersAfter(s))
         IN IF keyframes[k].type = TypeEnd /\ ~SegmentStartRule(k)
            THEN [end |-> k, type |-> "complete"]
            ELSE [end |-> k - 1, type |-> "simple"]

\* C20 (Spec): for the greatest segment start s at or before frame i, the
\* segment ends just before the next segment start (simple), at the first End
\* keyframe when that comes first (complete), at the last frame when there is
\* neither (simple); a frame after that end has the none context.
C20_SegmentEndRule ==
    last_op = "load_gif" =>
        \A i \in Frames :
            StartsUpTo(i) # {} =>
                LET s == SetMax(StartsUpTo(i))
                    e == ExpectedEnd(s)
                IN IF i <= e.end
                   THEN /\ ctx(i).start = s
                        /\ ctx(i).end = e.end
                        /\ ctx(i).type = e.type
                   ELSE ctx(i).type = "none"

\* a segment closed by an End keyframe is followed by a frame without
\* context, and another segment ends just before the next segment start
C20_Witness ==
    /\ last_op = "load_gif"
    /\ \E i \in Frames :
          /\ StartsUpTo(i) # {}
          /\ ExpectedEnd(SetMax(StartsUpTo(i))).type = "complete"
          /\ i > ExpectedEnd(SetMax(StartsUpTo(i))).end
          /\ ctx(i).type = "none"

\* C18 (Spec): stopping is immediate.  A stop request, or a frame selection
\* by the user while playing, leaves playback stopped with the loop state and
\* all counters cleared, the displayed frame being the last frame shown (or
\* the frame selected); while playback is stopped it stays so, no advance
\* step happens and the displayed frame changes only on a request of the
\* user, until a play request starts playback again.
C18_StopIsImmediate ==
    /\ [](~timer_active => StoppedAndCleared)
    /\ [][/\ (timer_active /\ StopCore)
               => /\ StoppedAndCleared'
                  /\ current_playback_frame_index' = current_playback_frame_index
                  /\ selected_index' = selected_index
          /\ \A i \in Frames :
                (timer_active /\ selected_index' # selected_index
                   /\ SelectFrameCore(i))
                  => /\ StoppedAndCleared'
                     /\ current_playback_frame_index' = i
                     /\ selected_index' = i
          /\ timer_active \/ ~AdvanceCore
          /\ (timer_active \/ ~timer_active') \/ PlayCore
          /\ \/ timer_active
             \/ current_playback_frame_index' = current_playback_frame_index
             \/ PlayCore
             \/ \E i \in Frames : SelectFrameCore(i)
             \/ \E direction \in {-1, 1} : NavigateCore(direction)
       ]_vars

\* playback was stopped after it had advanced, in loop mode
C18_Witness ==
    /\ last_op = "stop"
    /\ loop_checked
    /\ StoppedAndCleared
    /\ current_playback_frame_index > 0
    /\ selected_index = current_playback_frame_index

\* the sub-motions of the context that end at the end of its segment
SubMotionsAtSegmentEnd(context) ==
    {j \in 1..Len(context.sub_motions) :
        context.sub_motions[j].end = context.end}

\* C21 (Spec): with loop mode on and the playback frame at the end of an
\* unlocked segment that is also the end of a sub-motion, an advance goes to
\* the start of the sub-motion and adds one to its counter while the counter
\* is below the loop count; the jump to the segment start, which clears the
\* counters, is taken only when the counter has reached the loop count.
C21_SubLoopBeforeSegmentLoop ==
    [][(timer_active /\ play_checked /\ loop_checked /\ Advance) =>
        LET context == ctx(current_playback_frame_index) IN
        (/\ context.type # "none"
         /\ ~context.data.locked
         /\ current_playback_frame_index = context.end) =>
            \A j \in SubMotionsAtSegmentEnd(context) :
                LET sub == context.sub_motions[j]
                    count == CounterOf(sub_loop_counters, sub.start)
                IN IF count < sub.data.loop
                   THEN /\ current_playback_frame_index' = sub.start
                        /\ sub_loop_counters'
                              = Put(sub_loop_counters, sub.start, count + 1)
                   ELSE /\ count = sub.data.loop
                        /\ current_playback_frame_index' = context.start
                        /\ sub_loop_counters' = EmptyMap
    ]_vars

\* in loop mode the sub-motion that ends at the segment end has repeated and
\* playback stands at the segment end again, the segment several sub-motions
\* long
C21_Witness ==
    /\ timer_active
    /\ loop_checked
    /\ LET context == ctx(current_playback_frame_index) IN
       /\ context.type # "none"
       /\ current_playback_frame_index = context.end
       /\ \E j \in SubMotionsAtSegmentEnd(context) :
             /\ context.sub_motions[j].start > context.start
             /\ CounterOf(sub_loop_counters, context.sub_motions[j].start) = 1
             /\ context.sub_motions[j].data.loop > 1

\* frames f and g lie in different top-level segments, or exactly one of them
\* lies in none
DifferentSegments(f, g) ==
    \/ (ctx(f).type = "none") # (ctx(g).type = "none")
    \/ /\ ctx(f).type # "none"
       /\ ctx(g).type # "none"
       /\ ctx(f).start # ctx(g).start

\* C22 (Spec): after an advance step that displays a frame of another
\* top-level segment than the frame before it, the sub-motion counters are
\* empty and the loop state is the one computed for the new frame.
C22_CounterResetOnSegmentChange ==
    [][(timer_active /\ play_checked /\ timer_active'
          /\ current_playback_frame_index' # current_playback_frame_index
          /\ Advance
          /\ DifferentSegments(current_playback_frame_index,
                               current_playback_frame_index'))
        => /\ sub_loop_counters' = EmptyMap
           /\ CurrentLoopState'
                 = UpdatePlaybackContext(keyframes, frameCount, loop_checked,
                                         current_playback_frame_index')
    ]_vars

\* in loop mode playback has just entered a segment from the end of another
\* one whose last sub-motion repeats
C22_Witness ==
    /\ timer_active
    /\ loop_checked
    /\ last_op = "other"
    /\ current_playback_frame_index > 0
    /\ sub_loop_counters = EmptyMap
    /\ LET context == ctx(current_playback_frame_index)
           before == ctx(current_playback_frame_index - 1)
       IN /\ context.type # "none"
          /\ context.start = current_playback_frame_index
          /\ loop_return_point = context.start
          /\ loop_end_point = context.end
          /\ before.type # "none"
          /\ ~before.data.locked
          /\ \E j \in SubMotionsAtSegmentEnd(before) :
                before.sub_motions[j].data.loop > 0

\* the map without a keyframe at i, and the map with d at i; the other
\* entries as they are
Without(kf, i) == [k \in DOMAIN kf \ {i} |-> kf[k]]
WithAt(kf, i, d) == [k \in DOMAIN kf \cup {i} |-> IF k = i THEN d ELSE kf[k]]

\* the map after the editor for frame i closed with outcome o, where the data
\* of an accepted editor is what get_data() returns
EditedMap(kf, i, o) ==
    LET d == GetData(o.d, i \in DOMAIN kf) IN
    IF o.result = "delete" THEN Without(kf, i)
    ELSE IF d.name = "" /\ d.type # TypeEnd THEN Without(kf, i)
    ELSE WithAt(kf, i, d)

\* the editor for frame i is opened and closes with outcome o
DialogStep(i, o) ==
    \/ (selected_index = i /\ PrimaryKeyframeButtonCore(o))
    \/ (last_op' = "edit_motion_name" /\ EditMotionNameCore(i, o))
    \/ DoubleClickCore(i, o)

C24_ContextBounds ==
    last_op = "load_gif" =>
        \A i \in Frames :
            LET context == ctx(i) IN
            context.type # "none" =>
                /\ 0 <= context.start
                /\ context.start <= i
                /\ i <= context.end
                /\ context.end <= frameCount - 1
                /\ \A j \in 1..Len(context.sub_motions) :
                      /\ context.start <= context.sub_motions[j].start
                      /\ context.sub_motions[j].start
                            <= context.sub_motions[j].end
                      /\ context.sub_motions[j].end <= context.end

\* a segment that starts after frame 0 holds two sub-motions
C24_Witness ==
    /\ last_op = "load_gif"
    /\ \E i \in Frames :
          /\ ctx(i).type # "none"
          /\ ctx(i).start > 0
          /\ Len(ctx(i).sub_motions) > 1

\* C25 (SpecQuery): for every keyframe map and every frame i with a context that
\* is not none, every frame of its range has a context with the same start,
\* end, type and anchor keyframe and the same lock status; so two contexts
\* with different starts do not overlap.
C25_SegmentsPartition ==
    last_op = "load_gif" =>
        /\ \A i \in Frames :
              ctx(i).type # "none" =>
                  \A j \in ctx(i).start..ctx(i).end :
                      /\ ctx(j).start = ctx(i).start
                      /\ ctx(j).end = ctx(i).end
                      /\ ctx(j).type = ctx(i).type
                      /\ ctx(j).data = ctx(i).data
                      /\ isLocked(j) = isLocked(i)
        /\ \A i, j \in Frames :
              (/\ ctx(i).type # "none"
               /\ ctx(j).type # "none"
               /\ ctx(i).start # ctx(j).start)
              => (ctx(i).end < ctx(j).start \/ ctx(j).end < ctx(i).start)

\* two segments of several frames each, one of them locked
C25_Witness ==
    /\ last_op = "load_gif"
    /\ \E i, j \in Frames :
          /\ ctx(i).type # "none"
          /\ ctx(j).type # "none"
          /\ ctx(i).start < ctx(i).end
          /\ ctx(i).end < ctx(j).start
          /\ isLocked(i) # isLocked(j)

(***************************************************************************)
(* Playback progress with loop mode off                                    *)
(***************************************************************************)
\* C26 (SpecProgress): with loop mode off and a fixed keyframe map that has an
\* unlocked frame, a step taken while playing leaves the timer running, and
\* from every playing state each unlocked frame is displayed again: every
\* unlocked frame is displayed infinitely often
C26_PlaybackProgress ==
    /\ [][(timer_active /\ ~AllLocked) => timer_active']_vars
    /\ \A i \in 0..(ProgressFrames - 1) :
          (timer_active /\ ~loop_checked /\ ~isLocked(i))
              ~> (timer_active /\ selected_index = i
                    /\ current_playback_frame_index = i)

\* playback has wrapped around to frame 0, in a map whose first segment has
\* a sub-motion that is repeated
C26_Witness ==
    /\ timer_active
    /\ ~loop_checked
    /\ last_op = "other"
    /\ current_playback_frame_index = 0
    /\ sub_loop_counters = EmptyMap
    /\ \E k \in DOMAIN keyframes :
          /\ k > 0
          /\ keyframes[k].loop > 0
          /\ ctx(k).start = 0
          /\ \E j \in 1..Len(ctx(k).sub_motions) : ctx(k).sub_motions[j].start = k

(***************************************************************************)
(* The cached loop range and edits of the keyframe map during playback     *)
(***************************************************************************)
\* C27 (SpecLive): while playing with loop mode on, also when the keyframe map
\* is edited between two advance steps, segment-loop mode implies that the
\* cached loop return point and loop end point are the start and the end of
\* the context of the current playback frame in the current keyframe map
C27_LoopRangeFollowsEdits ==
    (timer_active /\ loop_checked /\ is_in_complete_motion_loop)
        => /\ loop_return_point = ctx(current_playback_frame_index).start
           /\ loop_end_point = ctx(current_playback_frame_index).end

(***************************************************************************)
(* The selected frame and the lock                                         *)
(***************************************************************************)
\* C28 (SpecEdit): after any sequence of frame selections, keyframe edits and
\* deletes, navigation, play and stop, whenever playback is stopped and a
\* frame is selected, that frame is not locked under the current keyframe map
C28_SelectedFrameNeverLocked ==
    (~timer_active /\ selected_index # NoneIdx) => ~isLocked(selected_index)

(***************************************************************************)
(* The table of sub-motion repeat counters                                 *)
(***************************************************************************)
\* the sub-motions of the segment of the current playback frame that start at
\* frame k
SubMotionsStartingAt(k) ==
    LET sub_motions == ctx(current_playback_frame_index).sub_motions
    IN {sub_motions[j] : j \in {x \in 1..Len(sub_motions) : sub_motions[x].start = k}}

is_looping_specific_motion == is_in_complete_motion_loop
active_motion_start_index == loop_return_point
active_motion_end_index == loop_end_point

\* the result (None, None) of _get_motion_segment_for_frame
NoSegment == [start |-> NoneIdx, end |-> NoneIdx]

\* _get_motion_segment_for_frame(frame_index), frame_index an integer
GetMotionSegmentForFrame(kf, n, frame_index) ==
    IF DOMAIN kf = {} THEN NoSegment
    ELSE
    LET sorted_keys == SortedKeys(kf)
        at_or_before == {k \in DOMAIN kf : k <= frame_index}
    IN
    IF at_or_before = {} THEN NoSegment
    ELSE
    LET current_motion_start_key == SetMax(at_or_before)
        idx_in_sorted ==
            CHOOSE p \in 1..Len(sorted_keys) : sorted_keys[p] = current_motion_start_key
        k_end == IF idx_in_sorted + 1 <= Len(sorted_keys)
                 THEN sorted_keys[idx_in_sorted + 1] - 1
                 ELSE n - 1
    IN
    IF current_motion_start_key <= frame_index /\ frame_index <= k_end
    THEN [start |-> current_motion_start_key, end |-> k_end]
    ELSE NoSegment

\* _update_playback_context_and_resume(new_target_frame) with the play button
\* checked: the frame, the loop fields and the timer it leaves
UpdatePlaybackContextAndResume(new_target_frame) ==
    LET segment == GetMotionSegmentForFrame(keyframes, frameCount, new_target_frame)
        looping == loop_checked /\ segment.start # NoneIdx
        frame == IF looping /\ ~(segment.start <= new_target_frame
                                    /\ new_target_frame <= segment.end)
                 THEN segment.start
                 ELSE new_target_frame
    IN /\ is_looping_specific_motion' = looping
       /\ active_motion_start_index' =
              (IF looping THEN segment.start ELSE active_motion_start_index)
       /\ active_motion_end_index' =
              (IF looping THEN segment.end ELSE active_motion_end_index)
       /\ current_playback_frame_index' = frame
       /\ timer_active' = (0 <= frame /\ frame < frameCount)
       /\ play_checked' = (0 <= frame /\ frame < frameCount)

\* select_frame(index) of v0.63.02, called by the user
PlayerSelectFrameCore(index) ==
    /\ UNCHANGED <<frameCount, keyframes, loop_checked, sub_loop_counters,
                   is_in_complete_motion_loop, loop_return_point, loop_end_point>>
    /\ IF ~(0 <= index /\ index < frameCount) \/ selected_index = index
       THEN /\ last_op' = "other"
            /\ UNCHANGED <<selected_index, current_playback_frame_index,
                           play_checked, timer_active>>
       ELSE /\ last_op' = "select_frame"
            /\ selected_index' = index
            /\ current_playback_frame_index' = index
            /\ timer_active' = FALSE
            /\ play_checked' = (IF timer_active THEN FALSE ELSE play_checked)

\* _on_play_pause_toggled(checked) of v0.63.02: the user toggles the button
PlayerPlayPauseToggledCore ==
    /\ UNCHANGED <<frameCount, keyframes, loop_checked, sub_loop_counters>>
    /\ IF frameCount = 0
       THEN /\ last_op' = "other"
            /\ play_checked' = FALSE
            /\ UNCHANGED <<selected_index, current_playback_frame_index,
                           timer_active, is_in_complete_motion_loop,
                           loop_return_point, loop_end_point>>
       ELSE IF ~play_checked
       THEN LET start ==
                    IF 0 <= current_playback_frame_index
                       /\ current_playback_frame_index < frameCount
                    THEN current_playback_frame_index
                    ELSE IF selected_index # NoneIdx THEN selected_index
                    ELSE 0
            IN /\ last_op' = "play"
               /\ selected_index' = start
               /\ UpdatePlaybackContextAndResume(start)
       ELSE /\ last_op' = "pause"
            /\ play_checked' = FALSE
            /\ timer_active' = FALSE
            /\ UNCHANGED <<selected_index, current_playback_frame_index,
                           is_in_complete_motion_loop, loop_return_point,
                           loop_end_point>>

\* _on_loop_toggled(checked) of v0.63.02
PlayerLoopToggledCore ==
    /\ loop_checked' = ~loop_checked
    /\ last_op' = "loop"
    /\ UNCHANGED <<frameCount, keyframes, selected_index, sub_loop_counters>>
    /\ IF timer_active
       THEN LET segment == GetMotionSegmentForFrame(keyframes, frameCount,
                                                    current_playback_frame_index)
                looping == ~loop_checked /\ segment.start # NoneIdx
            IN /\ is_looping_specific_motion' = looping
               /\ active_motion_start_index' =
                      (IF looping THEN segment.start ELSE active_motion_start_index)
               /\ active_motion_end_index' =
                      (IF looping THEN segment.end ELSE active_motion_end_index)
               /\ UNCHANGED <<current_playback_frame_index, timer_active,
                              play_checked>>
       ELSE /\ is_looping_specific_motion' =
                   (IF loop_checked THEN FALSE ELSE is_looping_specific_motion)
            /\ UNCHANGED <<loop_return_point, loop_end_point,
                           current_playback_frame_index, timer_active,
                           play_checked>>

\* _advance_frame() of v0.63.02: the timeout of the single-shot timer
PlayerAdvanceFrameCore ==
    /\ timer_active
    /\ UNCHANGED <<frameCount, keyframes, loop_checked, sub_loop_counters,
                   is_in_complete_motion_loop, loop_return_point, loop_end_point>>
    /\ IF frameCount = 0 \/ current_playback_frame_index = NoneIdx
       THEN /\ last_op' = "advance:stopped"
            /\ timer_active' = FALSE
            /\ play_checked' = FALSE
            /\ UNCHANGED <<selected_index, current_playback_frame_index>>
       ELSE LET next_frame_index == current_playback_frame_index + 1
                frame ==
                    IF is_looping_specific_motion /\ loop_checked
                    THEN IF next_frame_index > active_motion_end_index
                         THEN active_motion_start_index
                         ELSE next_frame_index
                    ELSE IF next_frame_index >= frameCount
                         THEN 0
                         ELSE next_frame_index
            IN /\ last_op' = "advance"
               /\ current_playback_frame_index' = frame
               /\ selected_index' = frame
               /\ timer_active' = TRUE
               /\ UNCHANGED play_checked

(***************************************************************************)
(* SpecPlayer: v0.63.02 with a GIF of PlayerFrames frames opened together  *)
(* with its project file, which names at most PlayerMaxKeys keyframes;     *)
(* then frame selection, the play and loop buttons and the playback timer. *)
(***************************************************************************)
PlayerKeyframeMaps(n, max_keys) ==
    UNION {[S -> {"m"}] :
              S \in {T \in SUBSET (0..(n - 1)) : Cardinality(T) <= max_keys}}

\* the state _load_gif_from_path of v0.63.02 leaves: select_frame(0)
InitPlayer ==
    /\ frameCount = PlayerFrames
    /\ keyframes \in PlayerKeyframeMaps(PlayerFrames, PlayerMaxKeys)
    /\ selected_index = 0
    /\ current_playback_frame_index = 0
    /\ play_checked = FALSE
    /\ loop_checked = FALSE
    /\ timer_active = FALSE
    /\ is_looping_specific_motion = FALSE
    /\ active_motion_start_index = NoneIdx
    /\ active_motion_end_index = NoneIdx
    /\ sub_loop_counters = EmptyMap
    /\ last_op = "load_gif"
    /\ shown = <<>>
    /\ project_file = NoFile

PlayerSelectFrame ==
    \E i \in Frames : PlayerSelectFrameCore(i) /\ UNCHANGED <<shown, project_file>>

PlayerPlayPauseToggled == PlayerPlayPauseToggledCore /\ UNCHANGED <<shown, project_file>>

PlayerLoopToggled == PlayerLoopToggledCore /\ UNCHANGED <<shown, project_file>>

PlayerAdvanceFrame == PlayerAdvanceFrameCore /\ UNCHANGED <<shown, project_file>>

NextPlayer ==
    \/ PlayerSelectFrame
    \/ PlayerPlayPauseToggled
    \/ PlayerLoopToggled
    \/ PlayerAdvanceFrame

SpecPlayer == InitPlayer /\ [][NextPlayer]_vars

\* the loop state names the segment of the current playback frame, if any
LoopStateTracksSegment ==
    LET segment == GetMotionSegmentForFrame(keyframes, frameCount,
                                            current_playback_frame_index)
    IN /\ is_looping_specific_motion <=> (segment.start # NoneIdx)
       /\ is_looping_specific_motion
             => /\ active_motion_start_index = segment.start
                /\ active_motion_end_index = segment.end

\* C30 (SpecPlayer): in the v0.63.02 player, while playing with loop mode on
\* and a fixed keyframe map, after every advance step the player loops a
\* motion exactly when the current playback frame lies in a segment, and the
\* active loop range is that segment; also when playback started on a frame
\* before the first keyframe
C30_LoopStateTracksSegment ==
    [][(timer_active /\ loop_checked /\ PlayerAdvanceFrame)
          => LoopStateTracksSegment'
    ]_vars

=============================================================================
